---------------------------- MODULE Spec2Model ----------------------------
(***************************************************************************)
(* Model of src/app.py: the SQS -> S3 metadata worker (metadata_handler)   *)
(* with its helpers, run by one or more Lambda invocations against an      *)
(* object store.  Strings that the code inspects character by character    *)
(* (object keys, prefixes) are sequences of one-character strings.         *)
(***************************************************************************)
EXTENDS Integers, Sequences, FiniteSets, TLC

VARIABLES
    input_prefix,   \* os.environ INPUT_PREFIX as read by the handler
    output_prefix,  \* os.environ OUTPUT_PREFIX as read by the handler
    flaky,          \* whether store calls may fail for reasons outside the store's state
    s3,             \* s3[w]: the store the client of invocation w talks to
    store,          \* store[e]: the objects of store e, keyed by <<bucket, key>>
    written,        \* log of the successful put_object calls
    event,          \* event[w]: the Records of the batch delivered to invocation w
    pc,             \* pc[w]: position of invocation w in metadata_handler
    idx,            \* idx[w]: number of records whose loop iteration has ended
    processed,      \* the three counters of the invocation
    skipped,
    errors,
    item,           \* item[w]: locals of the current iteration (bucket, key, etag, out_key, ...)
    calls,          \* calls[w]: the store calls issued for the current record, each
                    \* with the store's answer
    outcome,        \* outcome[w]: the classification of each record handled so far
    mapped,         \* results of the direct calls of _build_metadata_key, by input key
    ingest,         \* the invocation of ingest_handler: position, event, counters
    queue           \* the bodies sent to the queue by sqs.send_message, in order

vars == <<input_prefix, output_prefix, flaky, s3, store, written, event, pc, idx,
          processed, skipped, errors, item, calls, outcome, mapped, ingest, queue>>

-----------------------------------------------------------------------------
(* Bounds of the model *)

MaxBatch == 2
MaxMapped == 2

Workers == {"w1", "w2"}
Endpoints == {"A", "B"}

-----------------------------------------------------------------------------
(* Strings *)

incoming == <<"i","n","c","o","m","i","n","g","/">>
metadata == <<"m","e","t","a","d","a","t","a","/">>

dot_jpg  == <<".","j","p","g">>
dot_jpeg == <<".","j","p","e","g">>
dot_png  == <<".","p","n","g">>
dot_json == <<".","j","s","o","n">>

ALLOWED_EXTS == <<dot_jpg, dot_jpeg, dot_png>>

LowerChar(c) ==
    CASE c = "J" -> "j" [] c = "P" -> "p" [] c = "G" -> "g" [] c = "N" -> "n"
      [] c = "E" -> "e" [] c = "A" -> "a" [] c = "B" -> "b" [] OTHER -> c

lower(s) == [i \in 1..Len(s) |-> LowerChar(s[i])]

startswith(s, p) == Len(p) <= Len(s) /\ SubSeq(s, 1, Len(p)) = p

endswith(s, suf) ==
    Len(suf) <= Len(s) /\ SubSeq(s, Len(s) - Len(suf) + 1, Len(s)) = suf

endswith_any(s, sufs) == \E i \in 1..Len(sufs) : endswith(s, sufs[i])

_is_allowed_image_key(key) == endswith_any(lower(key), ALLOWED_EXTS)

\* Mutant: the relative path left out of the output key.
build_metadata_key_without_rel(input_key, in_prefix, out_prefix) ==
    out_prefix \o dot_json

\* Mutant: no ".json" appended to the relative path.
build_metadata_key_without_suffix(input_key, in_prefix, out_prefix) ==
    LET rel == IF startswith(input_key, in_prefix)
               THEN SubSeq(input_key, Len(in_prefix) + 1, Len(input_key))
               ELSE input_key
    IN  out_prefix \o rel

\* Mutant: the input prefix left on the key.
build_metadata_key_unstripped(input_key, in_prefix, out_prefix) ==
    out_prefix \o input_key \o dot_json

\* Mutant: the relative path folded to lower case.
build_metadata_key_lowercased(input_key, in_prefix, out_prefix) ==
    LET rel == IF startswith(input_key, in_prefix)
               THEN SubSeq(input_key, Len(in_prefix) + 1, Len(input_key))
               ELSE input_key
    IN  out_prefix \o lower(rel) \o dot_json

\* Lines 27-32.
_build_metadata_key(input_key, in_prefix, out_prefix) ==
    LET rel == IF startswith(input_key, in_prefix)
               THEN SubSeq(input_key, Len(in_prefix) + 1, Len(input_key))
               ELSE input_key
    IN  out_prefix \o rel \o dot_json


-----------------------------------------------------------------------------
(* JSON values, SQS records, images and stored objects *)

JStr(s) == [type |-> "string", str |-> s]
JNum(n) == [type |-> "number", num |-> n]
JNull == [type |-> "null"]
JObj(f) == [type |-> "object", fields |-> f]

\* The text of a record body: either not JSON at all, or the text of a value.
Text(v) == [json |-> TRUE, value |-> v]
NotJson == [json |-> FALSE]

key_a   == incoming \o <<"a">> \o dot_jpg
key_b   == incoming \o <<"b",".","P","N","G">>
key_pdf == incoming \o <<"d","o","c",".","p","d","f">>
key_out == <<"o","t","h","e","r","/","a">> \o dot_jpg
key_b_lower == incoming \o <<"b">> \o dot_png
key_bare == <<"a">> \o dot_jpg

Msg(b, k, e) == [body |-> Text(JObj([bucket |-> JStr(b), key |-> JStr(k), etag |-> e]))]

Envelopes ==
    { [body |-> NotJson],
      [body |-> Text(JObj([bucket |-> JStr("b1")]))],
      [body |-> Text(JObj([bucket |-> JStr("b1"), key |-> JNum(5)]))],
      Msg("b1", key_a, JStr("e1")),
      [body |-> Text(JObj([bucket |-> JStr("b1"), key |-> JStr(key_a)]))],
      Msg("b1", key_b, JStr("e2")),
      Msg("b2", key_a, JStr("e1")),
      Msg("b1", key_pdf, JStr("e3")),
      Msg("b1", key_out, JStr("e1")) }

SeqsUpTo(S, n) == UNION { [1..k -> S] : k \in 0..n }

Batches == SeqsUpTo(Envelopes, MaxBatch)

Permutation(a, b) ==
    /\ Len(a) = Len(b)
    /\ \E f \in [1..Len(a) -> 1..Len(a)] :
          /\ \A i, j \in 1..Len(a) : f[i] = f[j] => i = j
          /\ \A i \in 1..Len(a) : b[i] = a[f[i]]

\* What PIL makes of some bytes: not an image, or an image with its attributes.
\* format <<>> stands for img.format being None or "" (both give "" at line 166).
Jpeg10x20 ==
    [ok |-> TRUE, size |-> <<10, 20>>, format |-> <<"J","P","E","G">>,
     exif |-> [raises |-> FALSE, tags |-> <<>>]]
Corrupt == [ok |-> FALSE]

Bytes(n, pil) == [nbytes |-> n, pil |-> pil]

\* A stored source object; ContentLength is what get_object reports.
SourceObject(bytes) == [Body |-> bytes, ContentLength |-> bytes.nbytes]

Sources ==
    [x \in {<<"b1", key_a>>, <<"b1", key_b>>} |->
        IF x[2] = key_a THEN SourceObject(Bytes(3, Jpeg10x20))
                        ELSE SourceObject(Bytes(2, Corrupt))]

\* Images with tag tables: Make as bytes, Orientation as a number, an unknown tag
\* as a tuple; one table holds a value whose str() raises; one image whose
\* getexif() raises and whose format PIL does not know.
Tag(t, v) == [t |-> t, v |-> v]

JpegTagged ==
    [ok |-> TRUE, size |-> <<10, 20>>, format |-> <<"J","P","E","G">>,
     exif |-> [raises |-> FALSE,
               tags |-> [id \in {271, 274, 40000} |->
                           CASE id = 271 -> Tag("bytes", <<"C","a","n","o","n">>)
                             [] id = 274 -> Tag("int", 1)
                             [] OTHER -> Tag("tuple", <<1, 2>>)]]]

JpegBadTag ==
    [ok |-> TRUE, size |-> <<10, 20>>, format |-> <<"J","P","E","G">>,
     exif |-> [raises |-> FALSE,
               tags |-> [id \in {271, 274} |->
                           IF id = 271 THEN Tag("bytes", <<"C","a","n","o","n">>)
                           ELSE Tag("unprintable", 0)]]]

NoFormatExifRaises ==
    [ok |-> TRUE, size |-> <<1, 1>>, format |-> <<>>,
     exif |-> [raises |-> TRUE, tags |-> <<>>]]

\* What get_object may answer for a source: the declared ContentLength and the
\* bytes read agree, or the body was read short of the declared length (the
\* header of the image is still there), or no ContentLength is declared.
ImageObjects ==
    { SourceObject(Bytes(3, Jpeg10x20)),
      SourceObject(Bytes(4, JpegTagged)),
      SourceObject(Bytes(4, JpegBadTag)),
      SourceObject(Bytes(2, NoFormatExifRaises)),
      [Body |-> Bytes(3, Jpeg10x20), ContentLength |-> 5],
      [Body |-> Bytes(3, JpegTagged)] }

Stale == [Body |-> <<"stale">>, ContentType |-> "application/json"]

Put(objects, b, k, obj) ==
    [x \in DOMAIN objects \cup {<<b, k>>} |-> IF x = <<b, k>> THEN obj ELSE objects[x]]

Present(objects, b, k) == <<b, k>> \in DOMAIN objects

\* The stores an invocation may find: the sources, with or without a sidecar
\* left by an earlier delivery.
InitialObjects(in_prefix, out_prefix) ==
    { Sources,
      Put(Sources, "b1", _build_metadata_key(key_a, in_prefix, out_prefix), Stale) }

InputPrefixes == {incoming}
OutputPrefixes == {metadata}

\* Other settings of INPUT_PREFIX and OUTPUT_PREFIX: no input prefix at all, the
\* output prefix equal to the input prefix, and under it.
incoming_meta == incoming \o <<"m","e","t","a","/">>
AnyInputPrefixes == {incoming, <<>>}
AnyOutputPrefixes == {metadata, incoming, incoming_meta}

-----------------------------------------------------------------------------
(* metadata_handler, one step per statement group that touches the store *)

\* Lines 121-129: json.loads, body["bucket"], body["key"] raise inside the try.
envelope_raises(record) ==
    \/ ~record.body.json
    \/ record.body.value.type # "object"
    \/ "bucket" \notin DOMAIN record.body.value.fields
    \/ "key" \notin DOMAIN record.body.value.fields

\* body.get("etag")
get_etag(fields) == IF "etag" \in DOMAIN fields THEN fields.etag ELSE JNull

\* Mutant: the prefix test of line 131 left out.
filtered_out_extension_only(key, in_prefix) == ~_is_allowed_image_key(key)

\* Line 131: the test that sends a record to skipped.
filtered_out(key, in_prefix) ==
    ~startswith(key, in_prefix) \/ ~_is_allowed_image_key(key)

\* Mutant: the except branch of lines 126-129 counts the record in skipped.
after_envelope_skips_malformed(record, in_prefix) ==
    IF envelope_raises(record) THEN "skipped"
    ELSE IF record.body.value.fields.key.type # "string" THEN "raise"
    ELSE IF filtered_out(record.body.value.fields.key.str, in_prefix) THEN "skipped"
    ELSE "head"

\* Lines 121-133: where a record goes before any store call. key.startswith on a
\* key that is not a str raises AttributeError outside the try.
after_envelope(record, in_prefix) ==
    IF envelope_raises(record) THEN "errors"
    ELSE IF record.body.value.fields.key.type # "string" THEN "raise"
    ELSE IF filtered_out(record.body.value.fields.key.str, in_prefix) THEN "skipped"
    ELSE "head"

NotFoundCodes == {"404", "NoSuchKey", "NotFound"}

\* Mutant: the code "404" missing from the tuple of line 150.
is_not_found_without_404(code) == code \in {"NoSuchKey", "NotFound"}

\* Line 150: the ClientError codes after which processing goes on to the fetch.
is_not_found(code) == code \in NotFoundCodes

ClientError(code) == [kind |-> "ClientError", code |-> code]
\* Any exception that is not a botocore ClientError (EndpointConnectionError,
\* ParamValidationError, ReadTimeoutError, ...).
OtherError == [kind |-> "Exception", code |-> "-"]
Ok == [kind |-> "ok", code |-> "-"]

Faults == IF flaky THEN {ClientError("403"), OtherError} ELSE {}

\* What the store may answer to head_object / get_object / put_object.
HeadResults(w, bucket, key) ==
    IF bucket.type # "string" THEN {OtherError}
    ELSE {IF Present(store[s3[w]], bucket.str, key) THEN Ok ELSE ClientError("404")}
         \cup Faults

GetResults(w, bucket, key) ==
    {IF Present(store[s3[w]], bucket.str, key) THEN Ok ELSE ClientError("NoSuchKey")}
    \cup Faults

PutResults(w) == {Ok} \cup Faults

Call(w, op, r) == [calls EXCEPT ![w] = Append(@, [op |-> op, res |-> r])]

\* Mutant: a skipped record ends its iteration without being counted.
Continue_skip_uncounted(w, class) ==
    /\ pc' = [pc EXCEPT ![w] = "loop"]
    /\ idx' = [idx EXCEPT ![w] = @ + 1]
    /\ outcome' = [outcome EXCEPT ![w] = Append(@, class)]
    /\ processed' = [processed EXCEPT ![w] = IF class = "Processed" THEN @ + 1 ELSE @]
    /\ skipped' = skipped
    /\ errors' = [errors EXCEPT ![w] = IF class = "Errored" THEN @ + 1 ELSE @]

\* "continue" after counting the record in one counter.
Continue(w, class) ==
    /\ pc' = [pc EXCEPT ![w] = "loop"]
    /\ idx' = [idx EXCEPT ![w] = @ + 1]
    /\ outcome' = [outcome EXCEPT ![w] = Append(@, class)]
    /\ processed' = [processed EXCEPT ![w] = IF class = "Processed" THEN @ + 1 ELSE @]
    /\ skipped' = [skipped EXCEPT ![w] = IF class = "Skipped" THEN @ + 1 ELSE @]
    /\ errors' = [errors EXCEPT ![w] = IF class = "Errored" THEN @ + 1 ELSE @]

\* An exception leaves metadata_handler: nothing is counted, nothing is returned.
Raise(w) ==
    /\ pc' = [pc EXCEPT ![w] = "raised"]
    /\ UNCHANGED <<idx, outcome, processed, skipped, errors>>

Goto(w, label) ==
    /\ pc' = [pc EXCEPT ![w] = label]
    /\ UNCHANGED <<idx, outcome, processed, skipped, errors>>

Env == <<input_prefix, output_prefix, flaky, s3, event, mapped, ingest, queue>>

\* Lines 111-118.
Invoke(w) ==
    /\ pc[w] = "idle"
    /\ Goto(w, "loop")
    /\ UNCHANGED <<Env, store, written, item, calls>>

\* Lines 120-138: the next record, its envelope, the filter, the output key.
ParseRecord(w) ==
    /\ pc[w] = "loop"
    /\ idx[w] < Len(event[w])
    /\ LET record == event[w][idx[w] + 1]
           fields == record.body.value.fields
       IN  /\ calls' = [calls EXCEPT ![w] = <<>>]
           /\ CASE after_envelope(record, input_prefix) = "errors" ->
                     Continue(w, "Errored") /\ UNCHANGED item
                [] after_envelope(record, input_prefix) = "raise" ->
                     Raise(w) /\ UNCHANGED item
                [] after_envelope(record, input_prefix) = "skipped" ->
                     Continue(w, "Skipped") /\ UNCHANGED item
                [] OTHER ->
                   /\ item' = [item EXCEPT ![w] =
                          [bucket |-> fields.bucket,
                           key |-> fields.key.str,
                           etag |-> get_etag(fields),
                           out_key |-> _build_metadata_key(fields.key.str,
                                                         input_prefix, output_prefix)]]
                   /\ Goto(w, "head")
    /\ UNCHANGED <<Env, store, written>>

\* Mutant: an existing output counted in errors instead of skipped.
after_head_exists_is_error(r) ==
    CASE r.kind = "ok" -> "errors"
      [] r.kind = "ClientError" -> IF is_not_found(r.code) THEN "get" ELSE "errors"
      [] OTHER -> "raise"

\* Mutant: no "continue" after a successful head_object, the record is reprocessed.
after_head_reprocesses(r) ==
    CASE r.kind = "ok" -> "get"
      [] r.kind = "ClientError" -> IF is_not_found(r.code) THEN "get" ELSE "errors"
      [] OTHER -> "raise"

\* Lines 142-152: where the record goes after head_object answered r. Only
\* ClientError is caught; any other exception leaves the handler.
after_head(r) ==
    CASE r.kind = "ok" -> "skipped"
      [] r.kind = "ClientError" -> IF is_not_found(r.code) THEN "get" ELSE "errors"
      [] OTHER -> "raise"

\* Lines 142-152.
HeadObject(w) ==
    /\ pc[w] = "head"
    /\ \E r \in HeadResults(w, item[w].bucket, item[w].out_key) :
          /\ calls' = Call(w, "head_object", r)
          /\ CASE after_head(r) = "skipped" -> Continue(w, "Skipped")
               [] after_head(r) = "get" -> Goto(w, "get")
               [] after_head(r) = "errors" -> Continue(w, "Errored")
               [] OTHER -> Raise(w)
    /\ UNCHANGED <<Env, store, written, item>>

\* Mutant: the size taken from the bytes read, whatever the response declares.
content_length_recomputed(obj, img_bytes) == img_bytes.nbytes

\* Line 157: obj.get("ContentLength", len(img_bytes)).
content_length(obj, img_bytes) ==
    IF "ContentLength" \in DOMAIN obj THEN obj.ContentLength ELSE img_bytes.nbytes

\* Lines 154-161.
GetObject(w) ==
    /\ pc[w] = "get"
    /\ \E r \in GetResults(w, item[w].bucket, item[w].key) :
          /\ calls' = Call(w, "get_object", r)
          /\ IF r.kind = "ok"
             THEN LET obj == store[s3[w]][<<item[w].bucket.str, item[w].key>>]
                      img_bytes == obj.Body
                      content_len == content_length(obj, img_bytes)
                  IN  /\ item' = [item EXCEPT ![w] =
                             [bucket |-> @.bucket, key |-> @.key, etag |-> @.etag,
                              out_key |-> @.out_key,
                              img_bytes |-> img_bytes, content_len |-> content_len]]
                      /\ Goto(w, "decode")
             ELSE Continue(w, "Errored") /\ UNCHANGED item
    /\ UNCHANGED <<Env, store, written>>

UpperChar(c) ==
    CASE c = "j" -> "J" [] c = "p" -> "P" [] c = "e" -> "E" [] c = "g" -> "G"
      [] c = "n" -> "N" [] OTHER -> c

upper(s) == [i \in 1..Len(s) |-> UpperChar(s[i])]

\* ExifTags.TAGS, the part of it the model's images use.
TAGS == [id \in {271, 274} |-> IF id = 271 THEN "Make" ELSE "Orientation"]

tag_name(tag_id) == IF tag_id \in DOMAIN TAGS THEN TAGS[tag_id] ELSE ToString(tag_id)

\* Lines 90-95. A raw value is bytes (already a text here, invalid bytes shown
\* as "?"), a tuple or list, or anything else; str() of an "unprintable" raises.
coerce(value) ==
    CASE value.t = "bytes" -> value.v
      [] value.t = "tuple" -> [i \in 1..Len(value.v) |-> ToString(value.v[i])]
      [] OTHER -> ToString(value.v)

\* Mutant: the tags converted before the failing one are returned.
safe_exif_dict_partial(exif) ==
    IF exif.raises THEN <<>>
    ELSE LET good == {id \in DOMAIN exif.tags : exif.tags[id].t # "unprintable"}
         IN  IF good = {} THEN <<>>
             ELSE [name \in {tag_name(id) : id \in good} |->
                      coerce(exif.tags[CHOOSE id \in good : tag_name(id) = name])]

\* Lines 77-99: exif is [raises, tags], tags a function from tag ids to raw values.
_safe_exif_dict(exif) ==
    IF exif.raises THEN <<>>
    ELSE IF DOMAIN exif.tags = {} THEN <<>>
    ELSE IF \E id \in DOMAIN exif.tags : exif.tags[id].t = "unprintable" THEN <<>>
    ELSE [name \in {tag_name(id) : id \in DOMAIN exif.tags} |->
             coerce(exif.tags[CHOOSE id \in DOMAIN exif.tags : tag_name(id) = name])]

\* Lines 163-171.
DecodeImage(w) ==
    /\ pc[w] = "decode"
    /\ LET img == item[w].img_bytes.pil
       IN  IF img.ok
           THEN /\ item' = [item EXCEPT ![w] =
                       [bucket |-> @.bucket, key |-> @.key, etag |-> @.etag,
                        out_key |-> @.out_key,
                        img_bytes |-> @.img_bytes, content_len |-> @.content_len,
                        width |-> img.size[1], height |-> img.size[2],
                        fmt |-> upper(img.format),
                        exif_data |-> _safe_exif_dict(img.exif)]]
                /\ Goto(w, "put")
           ELSE Continue(w, "Errored") /\ UNCHANGED item
    /\ UNCHANGED <<Env, store, written, calls>>

\* Lines 173-182.
build_metadata(it) ==
    [source_bucket |-> it.bucket, source_key |-> it.key, etag |-> it.etag,
     format |-> it.fmt, width |-> it.width, height |-> it.height,
     file_size_bytes |-> it.content_len, exif |-> it.exif_data]

SortedKeys ==
    <<"etag", "exif", "file_size_bytes", "format", "height", "source_bucket",
      "source_key", "width">>

\* Line 188: json.dumps(metadata, indent=2, sort_keys=True): the members in key order.
json_dumps(md) == [i \in 1..Len(SortedKeys) |-> <<SortedKeys[i], md[SortedKeys[i]]>>]

\* Mutant: a write-if-absent, which the code does not use: when the key has
\* appeared since the existence check, nothing is written and the record is skipped.
PutObject_if_absent(w) ==
    /\ pc[w] = "put"
    /\ \E r \in PutResults(w) :
          /\ calls' = Call(w, "put_object", r)
          /\ IF r.kind = "ok"
             THEN IF Present(store[s3[w]], item[w].bucket.str, item[w].out_key)
                  THEN Continue(w, "Skipped") /\ UNCHANGED <<store, written>>
                  ELSE LET obj == [Body |-> json_dumps(build_metadata(item[w])),
                                   ContentType |-> "application/json"]
                       IN  /\ store' = [store EXCEPT ![s3[w]] =
                                  Put(@, item[w].bucket.str, item[w].out_key, obj)]
                           /\ written' = Append(written,
                                  [by |-> w, n |-> idx[w] + 1, endpoint |-> s3[w],
                                   bucket |-> item[w].bucket.str,
                                   key |-> item[w].out_key, obj |-> obj])
                           /\ Continue(w, "Processed")
             ELSE Continue(w, "Errored") /\ UNCHANGED <<store, written>>
    /\ UNCHANGED <<Env, item>>

\* Mutant: the sidecar written beside its source, under the input prefix.
put_object_key_beside_source(it) == it.key \o dot_json

\* Line 187: Key=out_key.
put_object_key(it) == it.out_key

\* Mutant: the record's position in the batch serialized with the record.
put_object_body_with_position(w) ==
    json_dumps(build_metadata(item[w])) \o <<<<"position", idx[w] + 1>>>>

\* Line 188: Body=json.dumps(metadata, ...).
put_object_body(w) == json_dumps(build_metadata(item[w]))

\* Lines 184-196.
PutObject(w) ==
    /\ pc[w] = "put"
    /\ \E r \in PutResults(w) :
          /\ calls' = Call(w, "put_object", r)
          /\ IF r.kind = "ok"
             THEN LET obj == [Body |-> put_object_body(w),
                              ContentType |-> "application/json"]
                  IN  /\ store' = [store EXCEPT ![s3[w]] =
                             Put(@, item[w].bucket.str, put_object_key(item[w]), obj)]
                      /\ written' = Append(written,
                             [by |-> w, n |-> idx[w] + 1, endpoint |-> s3[w],
                              bucket |-> item[w].bucket.str,
                              key |-> put_object_key(item[w]), obj |-> obj])
                      /\ Continue(w, "Processed")
             ELSE Continue(w, "Errored") /\ UNCHANGED <<store, written>>
    /\ UNCHANGED <<Env, item>>

\* Line 198.
Return(w) ==
    /\ pc[w] = "loop"
    /\ idx[w] = Len(event[w])
    /\ Goto(w, "returned")
    /\ UNCHANGED <<Env, store, written, item, calls>>

Step(w) ==
    \/ ParseRecord(w)
    \/ HeadObject(w)
    \/ GetObject(w)
    \/ DecodeImage(w)
    \/ PutObject(w)
    \/ Return(w)

Running(w) == pc[w] \notin {"idle", "returned", "raised"}

-----------------------------------------------------------------------------
(* Deliveries handled one after another against one store whose calls may  *)
(* fail at any time: an invocation starts only when no other is running.   *)

NoItem == [bucket |-> JNull]

IngestIdle ==
    [pc |-> "idle", event |-> <<>>, idx |-> 0, sent |-> 0, skipped |-> 0, notified |-> 0]

InitHandler ==
    /\ written = <<>>
    /\ pc = [w \in Workers |-> "idle"]
    /\ idx = [w \in Workers |-> 0]
    /\ processed = [w \in Workers |-> 0]
    /\ skipped = [w \in Workers |-> 0]
    /\ errors = [w \in Workers |-> 0]
    /\ item = [w \in Workers |-> NoItem]
    /\ calls = [w \in Workers |-> <<>>]
    /\ outcome = [w \in Workers |-> <<>>]
    /\ mapped = <<>>

\* ingest_handler is not invoked and the queue is empty.
NoIngest == ingest = IngestIdle /\ queue = <<>>

InitCommon ==
    /\ input_prefix \in InputPrefixes
    /\ output_prefix \in OutputPrefixes
    /\ InitHandler
    /\ NoIngest

SharedStore ==
    /\ s3 = [w \in Workers |-> "A"]
    /\ \E objs \in InitialObjects(input_prefix, output_prefix) :
          store = [e \in {s3[w] : w \in Workers} |-> objs]

Init ==
    /\ InitCommon
    /\ SharedStore
    /\ flaky = TRUE
    /\ \E b \in Batches : event = [w \in Workers |-> b]

Next ==
    \E w \in Workers :
        \/ (\A v \in Workers \ {w} : ~Running(v)) /\ Invoke(w)
        \/ Step(w)

Spec == Init /\ [][Next]_vars

-----------------------------------------------------------------------------
(* Vocabulary of the properties, stated apart from the handler's own tests *)

\* Invocation w stands right after the iteration of record idx[w] ended.
Handled(w) == pc[w] = "loop" /\ idx[w] >= 1

Last(w) == event[w][idx[w]]

LastOutcome(w) == outcome[w][Len(outcome[w])]

CountOf(w, class) == Cardinality({i \in DOMAIN outcome[w] : outcome[w][i] = class})

Fields(record) == record.body.value.fields

\* A body that parses to an object with a bucket and a key.
HasBucketAndKey(record) ==
    /\ record.body.json
    /\ record.body.value.type = "object"
    /\ {"bucket", "key"} \subseteq DOMAIN Fields(record)

Malformed(record) == ~HasBucketAndKey(record)

WellFormed(record) ==
    /\ HasBucketAndKey(record)
    /\ Fields(record).bucket.type = "string"
    /\ Fields(record).key.type = "string"

HasAllowedExt(key) ==
    \E ext \in {dot_jpg, dot_jpeg, dot_png} : endswith(lower(key), ext)

PassesValidation(record) ==
    /\ startswith(Fields(record).key.str, input_prefix)
    /\ HasAllowedExt(Fields(record).key.str)

ValidItem(record) == WellFormed(record) /\ PassesValidation(record)

SameItem(r1, r2) ==
    /\ WellFormed(r1) /\ WellFormed(r2)
    /\ Fields(r1).bucket = Fields(r2).bucket
    /\ Fields(r1).key = Fields(r2).key

SourceOf(record) == <<Fields(record).bucket.str, Fields(record).key.str>>

OutputOf(record) ==
    <<Fields(record).bucket.str,
      _build_metadata_key(Fields(record).key.str, input_prefix, output_prefix)>>

\* The not-found answer of the existence check is its negative answer, not a failure.
CallFailed(c) ==
    c.res.kind # "ok" /\ ~(c.op = "head_object" /\ c.res = ClientError("404"))

NoCallFailed(w) == \A i \in DOMAIN calls[w] : ~CallFailed(calls[w][i])

Decodable(w, record) ==
    /\ SourceOf(record) \in DOMAIN store[s3[w]]
    /\ store[s3[w]][SourceOf(record)].Body.pil.ok

Ops(w) == {calls[w][i].op : i \in DOMAIN calls[w]}

WrittenAt(w, n) == {i \in DOMAIN written : written[i].by = w /\ written[i].n = n}

-----------------------------------------------------------------------------
(* Properties *)

\* C1 (first run): a valid record whose output key the existence check reported
\* absent, whose source decodes and none of whose calls failed, is Processed.
FirstRunProcessed(w) ==
    (/\ Handled(w)
     /\ ValidItem(Last(w))
     /\ calls[w] # <<>>
     /\ calls[w][1] = [op |-> "head_object", res |-> ClientError("404")]
     /\ NoCallFailed(w)
     /\ Decodable(w, Last(w)))
    => /\ LastOutcome(w) = "Processed"
       /\ WrittenAt(w, idx[w]) # {}

\* C1 (second run): the same valid record handled again right after a Processed
\* run, with no failing call, is Skipped and the stored object is the one the
\* first run wrote.
SecondRunSkipped(w) ==
    (/\ Handled(w)
     /\ idx[w] >= 2
     /\ ValidItem(Last(w))
     /\ event[w][idx[w] - 1] = Last(w)
     /\ outcome[w][idx[w] - 1] = "Processed"
     /\ NoCallFailed(w))
    => /\ LastOutcome(w) = "Skipped"
       /\ \A i \in WrittenAt(w, idx[w] - 1) :
             store[s3[w]][OutputOf(Last(w))] = written[i].obj
       /\ WrittenAt(w, idx[w]) = {}

\* C1: running the Writer twice in sequence on one valid item, output initially
\* absent and no call failing, gives Processed then Skipped, and the object
\* stored after the second run is the object stored after the first.
C1_Idempotence == \A w \in Workers : FirstRunProcessed(w) /\ SecondRunSkipped(w)

C1_Witness ==
    \E w \in Workers :
        /\ Handled(w) /\ idx[w] = 2
        /\ ValidItem(Last(w)) /\ event[w][1] = event[w][2]
        /\ outcome[w] = <<"Processed", "Skipped">>
        /\ Len(written) = 1

\* C2: no failure of one record leaves metadata_handler as an exception: every
\* invocation goes through all its records and returns its summary.
C2_BatchNeverAborts == \A w \in Workers : pc[w] # "raised"

HeadFailedOther(w) ==
    /\ calls[w] # <<>>
    /\ calls[w][1].op = "head_object"
    /\ calls[w][1].res.kind # "ok"
    /\ calls[w][1].res.code \notin NotFoundCodes

\* C3: an existence check that fails with anything but not-found counts the
\* record in errors, and neither fetch nor write is issued for it.
C3_HeadFailureErrored ==
    \A w \in Workers :
        (HeadFailedOther(w) /\ pc[w] # "head")
        => /\ pc[w] # "raised"
           /\ Len(outcome[w]) = idx[w]
           /\ LastOutcome(w) = "Errored"
           /\ errors[w] = CountOf(w, "Errored")
           /\ Ops(w) = {"head_object"}

\* The existence check of w answers in this step that the output key is present.
HeadFindsPresent(w) ==
    /\ pc[w] = "head"
    /\ Present(store[s3[w]], item[w].bucket.str, item[w].out_key)
    /\ calls'[w] = <<[op |-> "head_object", res |-> Ok]>>

\* C4: when the existence check finds the output key present, the record is
\* counted in skipped, its iteration ends with no fetch and no write, and the
\* store is left as it was.
C4_ExistingOutputSkipped ==
    [][\A w \in Workers :
          HeadFindsPresent(w)
          => /\ pc'[w] = "loop" /\ idx'[w] = idx[w] + 1
             /\ outcome'[w] = Append(outcome[w], "Skipped")
             /\ skipped'[w] = skipped[w] + 1
             /\ processed'[w] = processed[w] /\ errors'[w] = errors[w]
             /\ store' = store /\ written' = written]_vars

C4_Witness ==
    \E w \in Workers :
        /\ Handled(w)
        /\ calls[w] = <<[op |-> "head_object", res |-> Ok]>>
        /\ LastOutcome(w) = "Skipped"
        /\ written = <<>>
        /\ store[s3[w]][OutputOf(Last(w))] = Stale

\* C5: every ended iteration has incremented exactly one counter: the counters
\* always sum to the number of records handled, each counter is the number of
\* records so classified, and a returned summary sums to the batch's length.
C5_CountersPartition ==
    \A w \in Workers :
        /\ processed[w] + skipped[w] + errors[w] = idx[w]
        /\ Len(outcome[w]) = idx[w]
        /\ processed[w] = CountOf(w, "Processed")
        /\ skipped[w] = CountOf(w, "Skipped")
        /\ errors[w] = CountOf(w, "Errored")
        /\ pc[w] = "returned" => processed[w] + skipped[w] + errors[w] = Len(event[w])

C5_Witness ==
    \E w \in Workers :
        /\ pc[w] = "returned" /\ Len(event[w]) = 2
        /\ processed[w] = 1 /\ errors[w] = 1 /\ skipped[w] = 0

\* C6: a record whose body is not JSON or lacks bucket or key is counted in
\* errors with no store call issued for it, never reaches the Writer's steps, and
\* the loop goes on to the records after it.
C6_MalformedEnvelope ==
    \A w \in Workers :
        /\ (Handled(w) /\ Malformed(Last(w)))
           => /\ LastOutcome(w) = "Errored"
              /\ errors[w] = CountOf(w, "Errored")
              /\ calls[w] = <<>>
        /\ (idx[w] < Len(event[w]) /\ Malformed(event[w][idx[w] + 1]))
           => pc[w] \in {"idle", "loop"}

C6_Witness ==
    \E w \in Workers :
        /\ Handled(w) /\ idx[w] = 2
        /\ Malformed(event[w][1]) /\ outcome[w] = <<"Errored", "Processed">>

\* C7: a well-formed record whose key lacks the input prefix or an allowed
\* extension is counted in skipped (not errors) before any store call: no
\* existence check, fetch or write is issued for it.
C7_ValidationFirst ==
    \A w \in Workers :
        /\ (Handled(w) /\ WellFormed(Last(w)) /\ ~PassesValidation(Last(w)))
           => /\ LastOutcome(w) = "Skipped"
              /\ skipped[w] = CountOf(w, "Skipped")
              /\ calls[w] = <<>>
        /\ (idx[w] < Len(event[w]) /\ WellFormed(event[w][idx[w] + 1])
              /\ ~PassesValidation(event[w][idx[w] + 1]))
           => pc[w] \in {"idle", "loop"}

C7_Witness ==
    \E w \in Workers :
        /\ pc[w] = "returned" /\ Len(event[w]) = 2
        /\ WellFormed(event[w][1]) /\ WellFormed(event[w][2])
        /\ ~startswith(Fields(event[w][1]).key.str, input_prefix)
        /\ startswith(Fields(event[w][2]).key.str, input_prefix)
        /\ ~HasAllowedExt(Fields(event[w][2]).key.str)
        /\ outcome[w] = <<"Skipped", "Skipped">>
        /\ calls[w] = <<>>

AtMostOneWrite ==
    \A i, j \in DOMAIN written :
        (/\ written[i].endpoint = written[j].endpoint
         /\ written[i].bucket = written[j].bucket
         /\ written[i].key = written[j].key) => i = j

\* C9: with deliveries handled one after another, at most one write to any
\* output key succeeds, and an object that exists is never changed or removed by
\* a later delivery.
C9_AtMostOnce ==
    [][/\ AtMostOneWrite'
       /\ \A e \in DOMAIN store : \A x \in DOMAIN store[e] :
             x \in DOMAIN store'[e] /\ store'[e][x] = store[e][x]]_vars

C9_Witness ==
    \E w, v \in Workers :
        /\ w # v /\ pc[v] = "returned" /\ pc[w] = "returned"
        /\ Len(event[w]) = 2
        /\ SameItem(event[w][1], event[w][2])
        /\ get_etag(Fields(event[w][1])) # get_etag(Fields(event[w][2]))
        /\ outcome[w] = <<"Errored", "Processed">>
        /\ outcome[v] = <<"Skipped", "Skipped">>
        /\ Len(written) = 1

-----------------------------------------------------------------------------
(* One batch and a permutation of it, each run against its own copy of the  *)
(* same store; store calls fail only for what the store holds.              *)

InitPerm ==
    /\ InitCommon
    /\ flaky = FALSE
    /\ s3 = [w \in Workers |-> IF w = "w1" THEN "A" ELSE "B"]
    /\ \E objs \in InitialObjects(input_prefix, output_prefix) :
          store = [e \in Endpoints |-> objs]
    /\ \E b1, b2 \in Batches :
          /\ Permutation(b1, b2)
          /\ event = [w \in Workers |-> IF w = "w1" THEN b1 ELSE b2]

SpecPerm == InitPerm /\ [][Next]_vars

Summary(w) == <<processed[w], skipped[w], errors[w]>>

\* A valid record with a decodable source and no sidecar left by an earlier delivery.
Processable(w, record) ==
    /\ ValidItem(record)
    /\ Decodable(w, record)
    /\ OutputOf(record) \in DOMAIN store[s3[w]]
          => store[s3[w]][OutputOf(record)] # Stale

\* C8: against stores that do not fail spuriously, the summaries returned for a
\* batch and for any permutation of it are equal; a malformed envelope and a
\* processable record give errors = 1 and processed = 1 in either order.
C8_OrderIndependent ==
    /\ (\A w \in Workers : pc[w] = "returned")
       => \A w, v \in Workers : Summary(w) = Summary(v)
    /\ \A w, v \in Workers : ~(pc[w] = "returned" /\ pc[v] = "raised")
    /\ \A w \in Workers :
          (/\ pc[w] = "returned"
           /\ Len(event[w]) = 2
           /\ \E i, j \in 1..2 :
                 /\ i # j
                 /\ Malformed(event[w][i])
                 /\ Processable(w, event[w][j]))
          => Summary(w) = <<1, 0, 1>>

C8_Witness ==
    /\ \A w \in Workers : pc[w] = "returned"
    /\ event["w1"] # event["w2"]
    /\ outcome["w1"] = <<"Errored", "Processed">>
    /\ outcome["w2"] = <<"Processed", "Errored">>
    /\ Malformed(event["w1"][1])

-----------------------------------------------------------------------------
(* The same batch delivered to two invocations that run at the same time    *)
(* against one store (at-least-once delivery): their steps interleave.      *)

InitConc ==
    /\ InitCommon
    /\ SharedStore
    /\ flaky = TRUE
    /\ \E b \in Batches : event = [w \in Workers |-> b]

NextConc == \E w \in Workers : Invoke(w) \/ Step(w)

SpecConc == InitConc /\ [][NextConc]_vars

\* C10: nothing ties the write to the existence check: a put_object the store
\* accepts is performed and counted in processed whatever the store holds at that
\* moment, so two invocations that both saw not-found both write and both report
\* Processed.
C10_CheckThenWriteNotAtomic ==
    [][\A w \in Workers :
          (/\ pc[w] = "put"
           /\ pc'[w] = "loop"
           /\ calls'[w][Len(calls'[w])] = [op |-> "put_object", res |-> Ok])
          => /\ outcome'[w] = Append(outcome[w], "Processed")
             /\ processed'[w] = processed[w] + 1
             /\ Len(written') = Len(written) + 1
             /\ written'[Len(written')].by = w
             /\ store'[s3[w]][<<item[w].bucket.str, item[w].out_key>>]
                   = written'[Len(written')].obj]_vars

\* Both existence checks answered not-found before either write, and both
\* invocations fetched, wrote the same output key and reported Processed.
C10_Witness ==
    /\ \A w \in Workers :
          /\ pc[w] = "returned"
          /\ Len(event[w]) = 1
          /\ outcome[w] = <<"Processed">>
          /\ calls[w] = <<[op |-> "head_object", res |-> ClientError("404")],
                          [op |-> "get_object", res |-> Ok],
                          [op |-> "put_object", res |-> Ok]>>
    /\ Len(written) = 2
    /\ written[1].by # written[2].by
    /\ written[1].endpoint = written[2].endpoint
    /\ written[1].bucket = written[2].bucket
    /\ written[1].key = written[2].key

\* The record whose iteration made the i-th successful write.
ItemOfWrite(i) == event[written[i].by][written[i].n]

SameTarget(i, j) ==
    /\ written[i].endpoint = written[j].endpoint
    /\ written[i].bucket = written[j].bucket
    /\ written[i].key = written[j].key

\* C11: in every interleaving of the invocations, all successful writes made
\* for the same work item carry the identical object, and while only that item
\* has been written to its output key the stored object is that object, as
\* after a single run.
C11_DuplicateWritesIdentical ==
    \A i \in DOMAIN written :
        /\ \A j \in DOMAIN written :
              ItemOfWrite(i) = ItemOfWrite(j) => written[i].obj = written[j].obj
        /\ (\A j \in DOMAIN written : SameTarget(i, j) => ItemOfWrite(i) = ItemOfWrite(j))
           => store[written[i].endpoint][<<written[i].bucket, written[i].key>>]
                 = written[i].obj

\* Two invocations wrote the same item at different positions of their runs.
C11_Witness ==
    \E i, j \in DOMAIN written :
        /\ written[i].by # written[j].by
        /\ written[i].n # written[j].n
        /\ ItemOfWrite(i) = ItemOfWrite(j)
        /\ written[i].obj = written[j].obj
        /\ store[written[i].endpoint][<<written[i].bucket, written[i].key>>]
              = written[j].obj

\* The record the call log of w belongs to.
LoggedRecord(w) ==
    IF pc[w] \in {"loop", "returned"} THEN event[w][idx[w]] ELSE event[w][idx[w] + 1]

OpsInOrder(w) ==
    \E n \in 0..3 :
        [i \in DOMAIN calls[w] |-> calls[w][i].op]
            = SubSeq(<<"head_object", "get_object", "put_object">>, 1, n)

\* C15: for one record the existence check, the fetch and the write are issued
\* at most once each and in that order; the write is issued only after a
\* not-found answer of the existence check, a successful fetch and a
\* successful decode; a failure of any step ends the record as Errored with no
\* further store call.
C15_StepOrderNoRetry ==
    \A w \in Workers :
        calls[w] # <<>> =>
            /\ OpsInOrder(w)
            /\ Len(calls[w]) = 3 =>
                  /\ calls[w][1].res \in {ClientError(code) : code \in NotFoundCodes}
                  /\ calls[w][2].res = Ok
                  /\ Decodable(w, LoggedRecord(w))
            /\ \A i \in DOMAIN calls[w] :
                  CallFailed(calls[w][i]) =>
                      /\ i = Len(calls[w])
                      /\ pc[w] \in {"loop", "returned"}
                      /\ Len(outcome[w]) = idx[w]
                      /\ LastOutcome(w) = "Errored"
            /\ (pc[w] \in {"loop", "returned"} /\ Len(calls[w]) = 2 /\ NoCallFailed(w)) =>
                  /\ ~Decodable(w, LoggedRecord(w))
                  /\ LastOutcome(w) = "Errored"

\* The store differs between the two states at most at location loc of endpoint e.
ChangedOnlyAt(e, loc) ==
    /\ DOMAIN store' = DOMAIN store
    /\ \A f \in DOMAIN store :
          /\ DOMAIN store[f] \subseteq DOMAIN store'[f]
          /\ DOMAIN store'[f] \subseteq DOMAIN store[f] \cup (IF f = e THEN {loc} ELSE {})
          /\ \A k \in DOMAIN store[f] : (f # e \/ k # loc) => store'[f][k] = store[f][k]

Classified(w, class) == outcome'[w] = Append(outcome[w], class)

\* C16: a step that classifies a record Skipped or Errored leaves the store as
\* it was; the store changes only in a step that classifies a record Processed,
\* and then only at the mapped output key in the record's bucket on that
\* invocation's endpoint, which is never the record's source.
C16_StoreFrame ==
    [][ /\ \A w \in Workers :
              (Classified(w, "Skipped") \/ Classified(w, "Errored")) => store' = store
        /\ store' # store =>
              \E w \in Workers :
                  /\ Classified(w, "Processed")
                  /\ OutputOf(event[w][idx'[w]]) # SourceOf(event[w][idx'[w]])
                  /\ ChangedOnlyAt(s3[w], OutputOf(event[w][idx'[w]]))
      ]_vars

\* A record was processed: its sidecar is in the store and its source is the
\* object that was there at the start.
C16_Witness ==
    \E w \in Workers :
        /\ Handled(w)
        /\ LastOutcome(w) = "Processed"
        /\ OutputOf(Last(w)) \in DOMAIN store[s3[w]]
        /\ OutputOf(Last(w)) \notin DOMAIN Sources
        /\ store[s3[w]][SourceOf(Last(w))] = Sources[SourceOf(Last(w))]

-----------------------------------------------------------------------------
(* Deliveries of the two sources, the first source being any of the images  *)
(* and fetch answers above.                                                 *)

ImageBatches ==
    SeqsUpTo({ Msg("b1", key_a, JStr("e1")),
               [body |-> Text(JObj([bucket |-> JStr("b1"), key |-> JStr(key_a)]))],
               Msg("b1", key_b, JStr("e2")) }, MaxBatch)

InitImages ==
    /\ InitCommon
    /\ flaky = TRUE
    /\ s3 = [w \in Workers |-> "A"]
    /\ \E o \in ImageObjects :
          store = [e \in {"A"} |-> [Sources EXCEPT ![<<"b1", key_a>>] = o]]
    /\ \E b \in ImageBatches : event = [w \in Workers |-> b]

SpecImages == InitImages /\ [][Next]_vars

\* The value of member name in a serialized record.
Member(body, name) == body[CHOOSE i \in DOMAIN body : body[i][1] = name][2]

SourceImage(w, record) == store[s3[w]][SourceOf(record)].Body.pil

\* Every store call of the record's iteration was issued and succeeded, the
\* existence check answering not-found.
CleanRun(w) ==
    calls[w] = << [op |-> "head_object", res |-> ClientError("404")],
                  [op |-> "get_object", res |-> Ok],
                  [op |-> "put_object", res |-> Ok] >>

\* C13: a valid record whose output key is absent and whose fetch, decode and
\* write succeed is Processed, and exactly one object is written for it: in its
\* own bucket at the mapped key, as application/json, with source_bucket,
\* source_key and etag from the record, format, width, height and exif from the
\* decoded image, and file_size_bytes the ContentLength the fetch declared.
C13_SuccessfulPath ==
    \A w \in Workers :
        (Handled(w) /\ ValidItem(Last(w)) /\ CleanRun(w)) =>
            /\ LastOutcome(w) = "Processed"
            /\ Cardinality(WrittenAt(w, idx[w])) = 1
            /\ \A i \in WrittenAt(w, idx[w]) :
                  LET src == store[s3[w]][SourceOf(Last(w))]
                      img == SourceImage(w, Last(w))
                      body == written[i].obj.Body
                  IN  /\ <<written[i].bucket, written[i].key>> = OutputOf(Last(w))
                      /\ written[i].endpoint = s3[w]
                      /\ store[s3[w]][OutputOf(Last(w))] = written[i].obj
                      /\ written[i].obj.ContentType = "application/json"
                      /\ Len(body) = 8
                      /\ Member(body, "source_bucket") = Fields(Last(w)).bucket
                      /\ Member(body, "source_key") = Fields(Last(w)).key.str
                      /\ Member(body, "etag") = get_etag(Fields(Last(w)))
                      /\ Member(body, "format") = img.format
                      /\ Member(body, "width") = img.size[1]
                      /\ Member(body, "height") = img.size[2]
                      /\ Member(body, "exif") = _safe_exif_dict(img.exif)
                      /\ "ContentLength" \in DOMAIN src
                            => Member(body, "file_size_bytes") = src.ContentLength
                      /\ img = Jpeg10x20 =>
                            /\ Member(body, "format") = <<"J","P","E","G">>
                            /\ Member(body, "width") = 10
                            /\ Member(body, "height") = 20
                            /\ Member(body, "exif") = <<>>

\* A 10x20 JPEG whose fetch declared a length other than that of the bytes read
\* was processed and its sidecar records the declared length.
C13_Witness ==
    \E w \in Workers :
        /\ Handled(w) /\ ValidItem(Last(w)) /\ CleanRun(w)
        /\ LastOutcome(w) = "Processed"
        /\ SourceImage(w, Last(w)) = Jpeg10x20
        /\ store[s3[w]][SourceOf(Last(w))].ContentLength = 5
        /\ store[s3[w]][SourceOf(Last(w))].Body.nbytes = 3
        /\ Member(store[s3[w]][OutputOf(Last(w))].Body, "file_size_bytes") = 5

\* The image's tag table is absent, or reading it raises.
TagsUnreadable(img) ==
    \/ img.exif.raises
    \/ DOMAIN img.exif.tags = {}
    \/ \E id \in DOMAIN img.exif.tags : img.exif.tags[id].t = "unprintable"

\* C14: when the image decodes but its tag table is absent or reading it
\* raises, the decode step does not fail the record, the mapping it keeps is
\* empty, and with the store calls succeeding the record is Processed with an
\* empty exif member.
C14_TagParsingNeverFails ==
    \A w \in Workers :
        /\ (pc[w] = "put" /\ TagsUnreadable(SourceImage(w, LoggedRecord(w))))
              => item[w].exif_data = <<>>
        /\ (pc[w] \in {"loop", "returned"} /\ Len(calls[w]) = 2 /\ NoCallFailed(w))
              => ~SourceImage(w, LoggedRecord(w)).ok
        /\ (Handled(w) /\ ValidItem(Last(w)) /\ CleanRun(w)
               /\ TagsUnreadable(SourceImage(w, Last(w))))
              => /\ LastOutcome(w) = "Processed"
                 /\ \A i \in WrittenAt(w, idx[w]) :
                       Member(written[i].obj.Body, "exif") = <<>>

\* Processed with an empty exif member although the table's second value
\* could not be read, and likewise for an image whose getexif() raises.
C14_Witness ==
    \E w \in Workers :
        /\ Handled(w) /\ CleanRun(w) /\ LastOutcome(w) = "Processed"
        /\ SourceImage(w, Last(w)) \in {JpegBadTag, NoFormatExifRaises}
        /\ Member(store[s3[w]][OutputOf(Last(w))].Body, "exif") = <<>>

-----------------------------------------------------------------------------
(* The key mapper under other prefixes: called directly on keys of every     *)
(* kind, and by metadata_handler for deliveries of three sources.            *)

MapKeys == {key_a, key_b, key_b_lower, key_bare, key_out, incoming}

\* A direct call _build_metadata_key(input_key, input_prefix, output_prefix).
Call_build_metadata_key(input_key) ==
    /\ input_key \notin DOMAIN mapped
    /\ Cardinality(DOMAIN mapped) < MaxMapped
    /\ mapped' = [k \in DOMAIN mapped \cup {input_key} |->
                     IF k = input_key
                     THEN _build_metadata_key(input_key, input_prefix, output_prefix)
                     ELSE mapped[k]]
    /\ UNCHANGED <<input_prefix, output_prefix, flaky, s3, store, written, event, pc,
                   idx, processed, skipped, errors, item, calls, outcome, ingest, queue>>

KeySources ==
    [x \in {<<"b1", key_b>>, <<"b1", key_b_lower>>, <<"b2", key_b>>} |->
        SourceObject(Bytes(3, Jpeg10x20))]

KeyBatches ==
    SeqsUpTo({ Msg("b1", key_b, JStr("e2")), Msg("b1", key_b_lower, JStr("e3")),
               Msg("b2", key_b, JStr("e2")) }, MaxBatch)

InitKeys ==
    /\ input_prefix \in AnyInputPrefixes
    /\ output_prefix \in AnyOutputPrefixes
    /\ InitHandler
    /\ NoIngest
    /\ flaky = FALSE
    /\ s3 = [w \in Workers |-> "A"]
    /\ store = [e \in {"A"} |-> KeySources]
    /\ \E b \in KeyBatches : event = [w \in Workers |-> b]

NextKeys ==
    \/ Next
    \/ \E input_key \in MapKeys : Call_build_metadata_key(input_key)

SpecKeys == InitKeys /\ [][NextKeys]_vars

HasPrefix(K, P) == Len(P) <= Len(K) /\ \A i \in 1..Len(P) : K[i] = P[i]

Drop(K, n) == [i \in 1..(Len(K) - n) |-> K[i + n]]

\* The output key the mapping rule gives for key K under prefixes P and Q.
ExpectedKey(K, P, Q) ==
    Q \o (IF HasPrefix(K, P) THEN Drop(K, Len(P)) ELSE K) \o <<".","j","s","o","n">>

\* C12: every call of the key mapper returns Q + K[len(P):] + ".json" when K
\* starts with P and Q + K + ".json" otherwise, whatever else the state holds;
\* the output key of every validated record, and the key of every write, is
\* OUTPUT_PREFIX + the record's key without INPUT_PREFIX + ".json".
C12_KeyMapping ==
    /\ \A K \in DOMAIN mapped : mapped[K] = ExpectedKey(K, input_prefix, output_prefix)
    /\ \A w \in Workers :
          pc[w] \in {"head", "get", "decode", "put"} =>
              /\ HasPrefix(item[w].key, input_prefix)
              /\ item[w].out_key =
                    output_prefix \o Drop(item[w].key, Len(input_prefix)) \o dot_json
    /\ \A i \in DOMAIN written :
          written[i].key =
              output_prefix \o Drop(Fields(ItemOfWrite(i)).key.str, Len(input_prefix))
                            \o dot_json

\* The mapper was called on a key with the prefix and on one without it, and a
\* record was written under a non-default output prefix.
C12_Witness ==
    /\ input_prefix = incoming /\ output_prefix = incoming_meta
    /\ DOMAIN mapped = {key_a, key_out}
    /\ mapped[key_a] = incoming_meta \o <<"a">> \o dot_jpg \o dot_json
    /\ mapped[key_out] = incoming_meta \o key_out \o dot_json
    /\ \E i \in DOMAIN written :
          /\ Fields(ItemOfWrite(i)).key.str = key_b
          /\ written[i].key = incoming_meta \o <<"b",".","P","N","G">> \o dot_json

\* C20: the key mapper gives different keys with the input prefix different
\* output keys; two writes reach the same location only for records with the
\* same bucket and key; and a record skipped because its output exists was
\* preceded by the write of a record with the same bucket and key.
C20_KeyMapInjective ==
    /\ \A K1, K2 \in DOMAIN mapped :
          (HasPrefix(K1, input_prefix) /\ HasPrefix(K2, input_prefix) /\ K1 # K2)
          => mapped[K1] # mapped[K2]
    /\ \A i, j \in DOMAIN written :
          SameTarget(i, j) => SourceOf(ItemOfWrite(i)) = SourceOf(ItemOfWrite(j))
    /\ \A i, j \in DOMAIN written :
          (SourceOf(ItemOfWrite(i)) # SourceOf(ItemOfWrite(j))
             /\ written[i].endpoint = written[j].endpoint)
          => /\ <<written[i].bucket, written[i].key>> # <<written[j].bucket, written[j].key>>
             /\ store[written[i].endpoint][<<written[i].bucket, written[i].key>>]
                   = written[i].obj
    /\ \A w \in Workers :
          (Handled(w) /\ ValidItem(Last(w)) /\ LastOutcome(w) = "Skipped")
          => \E i \in DOMAIN written :
                /\ SourceOf(ItemOfWrite(i)) = SourceOf(Last(w))
                /\ <<written[i].bucket, written[i].key>> = OutputOf(Last(w))

\* Two keys that differ only in the case of the extension, and the same key in
\* two buckets, were mapped and processed side by side.
C20_Witness ==
    /\ DOMAIN mapped = {key_b, key_b_lower}
    /\ mapped[key_b] # mapped[key_b_lower]
    /\ \E w \in Workers :
          /\ pc[w] = "returned"
          /\ outcome[w] = <<"Processed", "Processed">>
          /\ Fields(event[w][1]).key.str = key_b
          /\ Fields(event[w][2]).key.str = key_b_lower
          /\ OutputOf(event[w][1]) \in DOMAIN store[s3[w]]
          /\ OutputOf(event[w][2]) \in DOMAIN store[s3[w]]

-----------------------------------------------------------------------------
(* Redelivery: the queue hands a finished or failed invocation its batch    *)
(* again, and at some point the store stops failing spuriously.             *)

RetryBatches ==
    SeqsUpTo({ [body |-> Text(JObj([bucket |-> JStr("b1"), key |-> JNum(5)]))],
               Msg("b1", key_a, JStr("e1")),
               Msg("b1", key_b, JStr("e2")) }, MaxBatch)

\* The batch of a returned or failed invocation becomes visible again and is
\* delivered to a fresh invocation (lines 114-118 run anew).
Redeliver(w) ==
    /\ pc[w] \in {"returned", "raised"}
    /\ pc' = [pc EXCEPT ![w] = "idle"]
    /\ idx' = [idx EXCEPT ![w] = 0]
    /\ processed' = [processed EXCEPT ![w] = 0]
    /\ skipped' = [skipped EXCEPT ![w] = 0]
    /\ errors' = [errors EXCEPT ![w] = 0]
    /\ item' = [item EXCEPT ![w] = NoItem]
    /\ calls' = [calls EXCEPT ![w] = <<>>]
    /\ outcome' = [outcome EXCEPT ![w] = <<>>]
    /\ UNCHANGED <<Env, store, written>>

\* The store's transient failures end.
Heal ==
    /\ flaky
    /\ flaky' = FALSE
    /\ UNCHANGED <<input_prefix, output_prefix, s3, store, written, event, pc, idx,
                   processed, skipped, errors, item, calls, outcome, mapped, ingest,
                   queue>>

InitRetry ==
    /\ InitCommon
    /\ flaky = TRUE
    /\ s3 = [w \in Workers |-> "A"]
    /\ store = [e \in {"A"} |-> Sources]
    /\ \E b \in RetryBatches : event = [w \in Workers |-> b]

NextRetry ==
    \/ Next
    \/ \E w \in Workers : Redeliver(w)
    \/ Heal

\* An invocation that can take a step takes it, a finished batch is delivered
\* again, and the failures end.
FairRetry ==
    /\ \A w \in Workers : WF_vars(Step(w))
    /\ \A w \in Workers : WF_vars((\A v \in Workers \ {w} : ~Running(v)) /\ Invoke(w))
    /\ \A w \in Workers : WF_vars(Redeliver(w))
    /\ WF_vars(Heal)

SpecRetry == InitRetry /\ [][NextRetry]_vars /\ FairRetry

\* Only a successful write creates an output object.
OutputsAreWritten ==
    \A e \in DOMAIN store : \A loc \in DOMAIN store[e] \ DOMAIN Sources :
        \E i \in DOMAIN written :
            written[i].endpoint = e /\ <<written[i].bucket, written[i].key>> = loc

\* A delivery of a valid, decodable record none of whose calls fails is
\* Processed, unless a write for it succeeded before.
CleanDeliveryProcessed ==
    \A w \in Workers :
        (/\ Handled(w) /\ ValidItem(Last(w)) /\ Decodable(w, Last(w))
         /\ calls[w] # <<>> /\ NoCallFailed(w))
        => \/ LastOutcome(w) = "Processed"
           \/ /\ LastOutcome(w) = "Skipped"
              /\ \E i \in DOMAIN written :
                    <<written[i].bucket, written[i].key>> = OutputOf(Last(w))

\* The n-th record of w's batch is valid and its source decodes.
Writable(w, n) ==
    IF n <= Len(event[w])
    THEN IF ValidItem(event[w][n]) THEN Decodable(w, event[w][n]) ELSE FALSE
    ELSE FALSE

SidecarPresent(w, n) ==
    IF Writable(w, n) THEN OutputOf(event[w][n]) \in DOMAIN store[s3[w]] ELSE FALSE

\* C17: attempts that end Errored create no output object, so a delivery whose
\* existence check, fetch, decode and write succeed is Processed, not Skipped;
\* and every valid record with a decodable source that the queue keeps
\* redelivering has its sidecar written once the failures have ended.
C17_RedeliveryEventuallyWrites ==
    /\ []OutputsAreWritten
    /\ []CleanDeliveryProcessed
    /\ \A w \in Workers : \A n \in 1..MaxBatch :
          Writable(w, n) ~> SidecarPresent(w, n)

-----------------------------------------------------------------------------
(* ingest_handler: S3 notifications in, queue messages out *)

\* urllib.parse.unquote_plus on the escapes the model's keys use: "+" is a
\* space, %XX the character XX, anything else (a lone "%" too) is kept.
Escapes ==
    [p \in {<<"2","F">>, <<"2","E">>} |-> IF p = <<"2","F">> THEN "/" ELSE "."]

RECURSIVE unquote_plus(_)
unquote_plus(s) ==
    IF s = <<>> THEN <<>>
    ELSE IF s[1] = "+" THEN <<" ">> \o unquote_plus(Tail(s))
    ELSE IF s[1] = "%" /\ Len(s) >= 3 /\ <<s[2], s[3]>> \in DOMAIN Escapes
         THEN <<Escapes[<<s[2], s[3]>>]>> \o unquote_plus(SubSeq(s, 4, Len(s)))
    ELSE <<s[1]>> \o unquote_plus(Tail(s))

\* The key of an object as S3 writes it into a notification: a space becomes
\* "+"; letters, digits, "/", "." and "-" stay.
s3_event_key(key) == [i \in 1..Len(key) |-> IF key[i] = " " THEN "+" ELSE key[i]]

\* One Records entry of an S3 notification.
S3Event(b, object) == [s3 |-> [bucket |-> [name |-> b], object |-> object]]

key_a_escaped == <<"i","n","c","o","m","i","n","g","%","2","F","a","%","2","E","j","p","g">>

S3Records ==
    { [eventSource |-> "aws:s3"],
      S3Event("b1", [key |-> JStr(key_a), eTag |-> JStr("e1")]),
      S3Event("b1", [key |-> JStr(key_a_escaped)]),
      S3Event("b1", [key |-> JStr(key_pdf), eTag |-> JStr("e3")]),
      S3Event("b1", [key |-> JStr(key_out), eTag |-> JStr("e1")]) }

\* Lines 49-55: the lookups and unquote_plus raise inside the try.
ingest_raises(record) ==
    \/ "s3" \notin DOMAIN record
    \/ "key" \notin DOMAIN record.s3.object
    \/ record.s3.object.key.type # "string"

\* Line 52: .get("eTag") or .get("etag").
ingest_etag(object) ==
    IF "eTag" \in DOMAIN object THEN object.eTag
    ELSE IF "etag" \in DOMAIN object THEN object.etag
    ELSE JNull

\* Mutant: the prefix test of line 59 left out.
ingest_filtered_out_extension_only(key, in_prefix) == ~_is_allowed_image_key(key)

\* Lines 59-67: the two tests that send a record to skipped.
ingest_filtered_out(key, in_prefix) ==
    ~startswith(key, in_prefix) \/ ~_is_allowed_image_key(key)

\* Lines 69-70: the queue record of json.dumps({"bucket", "key", "etag"}).
ingest_message(record) ==
    [SenderId |-> "ingest",
     body |-> Text(JObj([bucket |-> JStr(record.s3.bucket.name),
                         key |-> JStr(unquote_plus(record.s3.object.key.str)),
                         etag |-> ingest_etag(record.s3.object)]))]

HandlerState == <<pc, idx, processed, skipped, errors, item, calls, outcome>>

\* Lines 42-46.
IngestInvoke ==
    /\ ingest.pc = "idle"
    /\ ingest.event # <<>>
    /\ ingest' = [ingest EXCEPT !.pc = "loop"]
    /\ UNCHANGED <<input_prefix, output_prefix, flaky, s3, store, written, event,
                   HandlerState, mapped, queue>>

\* Lines 48-72: one iteration of the loop.
IngestRecord ==
    /\ ingest.pc = "loop"
    /\ ingest.idx < Len(ingest.event)
    /\ LET record == ingest.event[ingest.idx + 1]
       IN  IF ingest_raises(record)
           THEN /\ ingest' = [ingest EXCEPT !.idx = @ + 1, !.skipped = @ + 1]
                /\ queue' = queue
           ELSE IF ingest_filtered_out(unquote_plus(record.s3.object.key.str),
                                       input_prefix)
           THEN /\ ingest' = [ingest EXCEPT !.idx = @ + 1, !.skipped = @ + 1]
                /\ queue' = queue
           ELSE /\ queue' = Append(queue, ingest_message(record))
                /\ ingest' = [ingest EXCEPT !.idx = @ + 1, !.sent = @ + 1]
    /\ UNCHANGED <<input_prefix, output_prefix, flaky, s3, store, written, event,
                   HandlerState, mapped>>

\* Line 74.
IngestReturn ==
    /\ ingest.pc = "loop"
    /\ ingest.idx = Len(ingest.event)
    /\ ingest' = [ingest EXCEPT !.pc = "returned"]
    /\ UNCHANGED <<input_prefix, output_prefix, flaky, s3, store, written, event,
                   HandlerState, mapped, queue>>

\* S3 notifies ingest_handler of the objects metadata_handler has created since
\* the last notification, and a fresh invocation starts on them.
Notify ==
    /\ ingest.pc = "returned"
    /\ ingest.notified < Len(written)
    /\ LET n == IF Len(written) - ingest.notified > MaxBatch
                THEN MaxBatch ELSE Len(written) - ingest.notified
       IN  ingest' = [pc |-> "idle",
                      event |-> [i \in 1..n |->
                                   S3Event(written[ingest.notified + i].bucket,
                                           [key |-> JStr(s3_event_key(
                                                      written[ingest.notified + i].key)),
                                            eTag |-> JStr("e9")])],
                      idx |-> 0, sent |-> 0, skipped |-> 0,
                      notified |-> ingest.notified + n]
    /\ UNCHANGED <<input_prefix, output_prefix, flaky, s3, store, written, event,
                   HandlerState, mapped, queue>>

\* The queue delivers its first messages, at most a batch of them, to an
\* invocation of metadata_handler that is not running.
Receive(w) ==
    /\ pc[w] \in {"returned", "raised"} \/ (pc[w] = "idle" /\ event[w] = <<>>)
    /\ queue # <<>>
    /\ \E n \in 1..MaxBatch :
          /\ n <= Len(queue)
          /\ event' = [event EXCEPT ![w] = SubSeq(queue, 1, n)]
          /\ queue' = SubSeq(queue, n + 1, Len(queue))
    /\ pc' = [pc EXCEPT ![w] = "idle"]
    /\ idx' = [idx EXCEPT ![w] = 0]
    /\ processed' = [processed EXCEPT ![w] = 0]
    /\ skipped' = [skipped EXCEPT ![w] = 0]
    /\ errors' = [errors EXCEPT ![w] = 0]
    /\ item' = [item EXCEPT ![w] = NoItem]
    /\ calls' = [calls EXCEPT ![w] = <<>>]
    /\ outcome' = [outcome EXCEPT ![w] = <<>>]
    /\ UNCHANGED <<input_prefix, output_prefix, flaky, s3, store, written, mapped,
                   ingest>>

\* A message some other producer left on the queue: it names the sidecar of
\* incoming/a.jpg as if it were a source.
StaleMessage(in_prefix, out_prefix) ==
    [SenderId |-> "other",
     body |-> Text(JObj([bucket |-> JStr("b1"),
                         key |-> JStr(_build_metadata_key(key_a, in_prefix, out_prefix)),
                         etag |-> JStr("e1")]))]

InitPipe ==
    /\ input_prefix \in AnyInputPrefixes
    /\ output_prefix \in AnyOutputPrefixes
    /\ InitHandler
    /\ flaky = FALSE
    /\ s3 = [w \in Workers |-> "A"]
    /\ store = [e \in {"A"} |-> Sources]
    /\ event = [w \in Workers |-> <<>>]
    /\ \E b \in SeqsUpTo(S3Records, MaxBatch) : ingest = [IngestIdle EXCEPT !.event = b]
    /\ queue \in {<<>>, <<StaleMessage(input_prefix, output_prefix)>>}

NextPipe ==
    \/ IngestInvoke
    \/ IngestRecord
    \/ IngestReturn
    \/ Notify
    \/ \E w \in Workers : Receive(w)
    \/ Next

SpecPipe == InitPipe /\ [][NextPipe]_vars

\* The queue records that ingest_handler sent: waiting, or delivered.
SentByIngest ==
    {queue[i] : i \in {j \in DOMAIN queue : queue[j].SenderId = "ingest"}}
    \cup UNION {{event[w][i] : i \in {j \in DOMAIN event[w] :
                                        event[w][j].SenderId = "ingest"}} : w \in Workers}

\* The key a notification record names, if it names one.
NamesKey(record) ==
    IF "s3" \in DOMAIN record
    THEN IF "key" \in DOMAIN record.s3.object
         THEN record.s3.object.key.type = "string"
         ELSE FALSE
    ELSE FALSE

\* The notification record names a key with the input prefix and an allowed extension.
Acceptable(record) ==
    IF NamesKey(record)
    THEN /\ HasPrefix(unquote_plus(record.s3.object.key.str), input_prefix)
         /\ HasAllowedExt(unquote_plus(record.s3.object.key.str))
    ELSE FALSE

\* C18 (messages): every message sent by ingest_handler has bucket, key and
\* etag members, its key has the input prefix and an allowed extension, and
\* metadata_handler neither counts it in errors as a malformed envelope nor
\* skips it at the filter: it always reaches the existence check.
EnqueuedIsValid ==
    /\ \A m \in SentByIngest :
          /\ WellFormed(m)
          /\ "etag" \in DOMAIN Fields(m)
          /\ HasPrefix(Fields(m).key.str, input_prefix)
          /\ HasAllowedExt(Fields(m).key.str)
    /\ \A w \in Workers :
          /\ (Handled(w) /\ Last(w).SenderId = "ingest") => calls[w] # <<>>
          /\ (pc[w] = "raised" /\ LoggedRecord(w).SenderId = "ingest") => calls[w] # <<>>

\* C18 (converse): an iteration of ingest_handler sends exactly one message
\* when the record passes the prefix and extension tests, and sends nothing and
\* counts the record in skipped when it does not.
SendsOnlyAcceptable ==
    (ingest.pc = "loop" /\ ingest'.idx = ingest.idx + 1) =>
        IF Acceptable(ingest.event[ingest'.idx])
        THEN /\ Len(queue') = Len(queue) + 1
             /\ queue'[Len(queue')].SenderId = "ingest"
             /\ Fields(queue'[Len(queue')]).key.str
                   = unquote_plus(ingest.event[ingest'.idx].s3.object.key.str)
             /\ ingest'.sent = ingest.sent + 1 /\ ingest'.skipped = ingest.skipped
        ELSE /\ queue' = queue
             /\ ingest'.sent = ingest.sent /\ ingest'.skipped = ingest.skipped + 1

\* C18: ingest_handler and metadata_handler agree on which keys are valid.
C18_IngestAgreesWithFilter == []EnqueuedIsValid /\ [][SendsOnlyAcceptable]_vars

\* ingest_handler sent one record of two, and metadata_handler processed the
\* message, whose key arrived escaped and without an etag.
C18_Witness ==
    /\ ingest.pc = "returned" /\ ingest.sent = 1 /\ ingest.skipped = 1
    /\ \E w \in Workers :
          /\ Handled(w) /\ Last(w).SenderId = "ingest"
          /\ Fields(Last(w)).key.str = key_a
          /\ Fields(Last(w)).etag = JNull
          /\ LastOutcome(w) = "Processed"

\* The locations metadata_handler has written.
Sidecars == {<<written[i].bucket, written[i].key>> : i \in DOMAIN written}

EndsInJson(key) ==
    Len(key) >= 5 /\ SubSeq(key, Len(key) - 4, Len(key)) = <<".","j","s","o","n">>

\* C19: the key of every object metadata_handler writes ends in ".json" and
\* fails the extension test; whatever the prefixes, ingest_handler never sends
\* a message for such an object, and metadata_handler never takes a record
\* naming one past the filter.
C19_NoFeedbackLoop ==
    /\ \A loc \in Sidecars : EndsInJson(loc[2]) /\ ~HasAllowedExt(loc[2])
    /\ \A m \in SentByIngest : SourceOf(m) \notin Sidecars /\ ~EndsInJson(Fields(m).key.str)
    /\ \A w \in Workers :
          pc[w] \in {"head", "get", "decode", "put"} =>
              /\ <<item[w].bucket.str, item[w].key>> \notin Sidecars
              /\ ~EndsInJson(item[w].key)
    /\ (ingest.notified > 0 /\ ingest.pc \in {"loop", "returned"}) =>
          ingest.sent = 0 /\ ingest.skipped = ingest.idx

\* With the output prefix under the input prefix, a sidecar was written,
\* ingest_handler was notified of it and skipped it, and a delivery naming the
\* sidecar was skipped by metadata_handler with no store call.
C19_Witness ==
    /\ input_prefix = incoming /\ output_prefix = incoming_meta
    /\ <<"b1", incoming_meta \o <<"a">> \o dot_jpg \o dot_json>> \in Sidecars
    /\ ingest.notified = 1 /\ ingest.pc = "returned"
    /\ ingest.sent = 0 /\ ingest.skipped = 1
    /\ queue = <<>>
    /\ \E w \in Workers :
          /\ Handled(w) /\ Last(w).SenderId = "other"
          /\ SourceOf(Last(w)) \in Sidecars
          /\ LastOutcome(w) = "Skipped" /\ calls[w] = <<>>
=============================================================================
